---- MODULE Spec2Model ----
(***************************************************************************)
(* uioctl: userspace I/O utility (src/uioctl.c).                           *)
(*                                                                         *)
(* One invocation of the program is a sequential process: the getopt loop  *)
(* of main, the dispatch on the mode, then either monitor() (open, then    *)
(* the pwrite/pread loop on the device file) or the register path (open,   *)
(* mmap, loads or one store through the mapping, munmap, close).  The      *)
(* command line, the results of the system calls and the contents of the   *)
(* device registers are inputs drawn from small sets.  The device memory   *)
(* persists from one invocation to the next.                               *)
(*                                                                         *)
(* Numbers.  A C int is a TLA+ integer in -2^31 .. 2^31-1.  An unsigned    *)
(* 32-bit quantity (a register word, what %08x prints) is a pair           *)
(* <<hi, lo>> of 16-bit halves, worth hi*65536 + lo.  A command-line       *)
(* numeral is the little-endian sequence of its 16-bit limbs, so that      *)
(* numerals beyond 2^32 and beyond 2^64 can be written down.               *)
(***************************************************************************)
EXTENDS Integers, Sequences, FiniteSets, TLC

(* ---------------- bounds of the model ---------------- *)
MaxOpts == 2      \* options handed out by getopt in one invocation
MaxIter == 2      \* iterations of the monitor loop that are explored

(* ---------------- program constants ---------------- *)
DEFAULT_WIDTH == 4
EXIT_SUCCESS == 0
EXIT_FAILURE == 1

(* char startval[] = {0,0,0,1} *)
startval == <<0, 0, 0, 1>>

(* ---------------- input domains ---------------- *)
Num(l) == [kind |-> "num", limbs |-> l]
Junk == [kind |-> "junk", limbs |-> <<>>]

\* arguments of -w: 4, 2, 2^32+4, 2^64, and a non-number
WidthArgs == { Num(<<4>>), Num(<<2>>), Num(<<4, 0, 1>>), Num(<<0, 0, 0, 0, 1>>), Junk }
\* arguments of -r: 0, 1, 2^32, and a non-number
RegionArgs == { Num(<<0>>), Num(<<1>>), Num(<<0, 0, 1>>), Junk }
\* arguments of -n: 0, 1, 2, 2^32-1
CountArgs == { Num(<<0>>), Num(<<1>>), Num(<<2>>), Num(<<65535, 65535>>) }
\* register addresses: 0, 4, 8
AddrArgs == { Num(<<0>>), Num(<<4>>), Num(<<8>>) }
\* 32-bit values to write: 0x80001234 and 2^32-1
ValueArgs == { Num(<<4660, 32768>>), Num(<<65535, 65535>>) }
\* contents the hardware gives a register: 0 and 0x80000001
MemVals == { <<0, 0>>, <<32768, 1>> }
\* byte offsets of the registers the device region backs
RegOffsets == { 0, 4 }
\* the four bytes buf[0..3] an event read can deliver
Buf(b0, b1, b2, b3) == [i \in 0 .. 3 |-> << b0, b1, b2, b3 >>[i + 1]]
BufSamples ==
    { Buf(2, 0, 0, 0), Buf(0, 1, 0, 0), Buf(120, 86, 52, 18),
      Buf(128, 0, 0, 0), Buf(0, 0, 0, 128), Buf(255, 255, 255, 127) }
\* argc - optind after the option loop
PosCounts == 0 .. 3
\* results of open(2): failure, descriptor 0, an ordinary descriptor
OpenRets == { -1, 0, 3 }
\* results of pwrite(2)/pread(2) of 4 bytes: error, short, full
XferRets == { -1, 2, 4 }

(* ---------------- integer conversions ---------------- *)
\* the int holding the 32-bit pattern u (two's complement)
U32ToInt(u) ==
    IF u[1] < 32768 THEN u[1] * 65536 + u[2]
                    ELSE (u[1] - 65536) * 65536 + u[2]

\* the 32-bit pattern of the int i: a store of an int through unsigned*,
\* and what %08x prints of an int
IntToU32(i) == << (i \div 65536) % 65536, i % 65536 >>

\* int + int, kept to 32 bits (where the C sum overflows, the two's
\* complement result the targets deliver)
AddWrap(x, y) ==
    LET a == IntToU32(x)
        b == IntToU32(y)
        lo == a[2] + b[2]
        hi == a[1] + b[1] + (lo \div 65536)
    IN  U32ToInt(<< hi % 65536, lo % 65536 >>)

\* c * k for a promoted char c and an int constant k, kept to 32 bits
MulWrap(c, k) ==
    LET u == IntToU32(k)
        lo == c * u[2]
        hi == c * u[1] + (lo \div 65536)
    IN  U32ToInt(<< hi % 65536, lo % 65536 >>)

\* the value of buf[i] in an int expression: char is signed or unsigned
\* as the target's ABI has it
CharToInt(b, isSigned) == IF isSigned /\ b >= 128 THEN b - 256 ELSE b

Limb(l, i) == IF i <= Len(l) THEN l[i] ELSE 0

\* strtoul(s, NULL, 0): the unsigned long value (four limbs)
StrToULVal(s, bits) ==
    IF s.kind = "junk" THEN <<0, 0, 0, 0>>
    ELSE IF \E i \in 1 .. Len(s.limbs) : i > bits \div 16 /\ s.limbs[i] # 0
         THEN [i \in 1 .. 4 |-> IF i <= bits \div 16 THEN 65535 ELSE 0]
         ELSE [i \in 1 .. 4 |-> Limb(s.limbs, i)]

\* strtoul(s, NULL, 0): the values errno can hold afterwards, having been 0
StrToULErrno(s, bits) ==
    IF s.kind = "junk" THEN {"0", "EINVAL"}
    ELSE IF \E i \in 1 .. Len(s.limbs) : i > bits \div 16 /\ s.limbs[i] # 0
         THEN {"ERANGE"}
         ELSE {"0"}

\* int = unsigned long: the low 32 bits
ULongToInt(v) == U32ToInt(<< v[2], v[1] >>)

\* region = strtoul(optarg, NULL, 0) and its like
StrToInt(s, bits) == ULongToInt(StrToULVal(s, bits))

(* ---------------- state ---------------- *)
VARIABLES
    charSigned,  \* the build: is plain char signed
    longBits,    \* the build: width of unsigned long
    mem,         \* the device registers, by byte offset
    lastWrite,   \* history: the last store that hit a register
    pc, status,
    nopts, mode, forever, region, count, width, req,
    npos, addr, value, map_size, ptr, out,
    start, n0, vnum,   \* history: the address, count and value asked for
    fd, fdOpen,
    buf, nEvents, lastEvent,
    trace        \* history: system calls and accesses of this invocation

env == << charSigned, longBits >>
dev == << mem, lastWrite >>
optv == << nopts, mode, forever, region, count, width, req >>
regv == << npos, addr, value, map_size, ptr, out, start, n0, vnum >>
filev == << fd, fdOpen >>
monv == << buf, nEvents, lastEvent >>
vars == << env, dev, pc, status, optv, regv, filev, monv, trace >>

NoWrite == [valid |-> FALSE, off |-> 0, v |-> Num(<<0>>)]

\* an entry of the trace: the call, its result, the offset, whether it
\* succeeded (for an access: whether it fell in the live mapping), the data,
\* and for a load the store whose word it read
Ev(op, ret, off, ok, data) ==
    [op |-> op, ret |-> ret, off |-> off, ok |-> ok, data |-> data, wr |-> NoWrite]
NoReq == [badWidth |-> FALSE, badRegion |-> FALSE, sawM |-> FALSE, sawX |-> FALSE]

Init ==
    /\ charSigned \in BOOLEAN
    /\ longBits \in {32, 64}
    /\ mem = [a \in RegOffsets |-> <<0, 0>>]
    /\ lastWrite = NoWrite
    /\ pc = "getopt"
    /\ status = -1
    /\ nopts = 0
    /\ mode = "MODE_READ"
    /\ forever = 1
    /\ region = 0
    /\ count = 1
    /\ width = DEFAULT_WIDTH
    /\ req = NoReq
    /\ npos = 0
    /\ addr = 0
    /\ value = 0
    /\ map_size = 0
    /\ ptr = "none"
    /\ out = <<>>
    /\ start = 0
    /\ n0 = 0
    /\ vnum = Num(<<0>>)
    /\ fd = -1
    /\ fdOpen = FALSE
    /\ buf = [i \in 0 .. 3 |-> 0]
    /\ nEvents = 0
    /\ lastEvent = 0
    /\ trace = <<>>

(* ---------------- main: the option loop ---------------- *)
\* the mathematical value of a numeral differs from k
NumeralIsNot(s, k) == s.kind = "num" /\ (Limb(s.limbs, 1) # k \/ \E i \in 2 .. Len(s.limbs) : s.limbs[i] # 0)

\* case 'h': usage(EXIT_SUCCESS)
OptH ==
    /\ pc = "getopt" /\ nopts < MaxOpts
    /\ pc' = "exited" /\ status' = EXIT_SUCCESS
    /\ nopts' = nopts + 1
    /\ UNCHANGED << env, dev, mode, forever, region, count, width, req, regv, filev, monv, trace >>

\* case 'l': list_devices()
OptL ==
    /\ pc = "getopt" /\ nopts < MaxOpts
    /\ pc' = "exited" /\ status' = EXIT_FAILURE
    /\ nopts' = nopts + 1
    /\ UNCHANGED << env, dev, mode, forever, region, count, width, req, regv, filev, monv, trace >>

\* a -m that also selects the run-forever form anew
OptMMut ==
    /\ pc = "getopt" /\ nopts < MaxOpts
    /\ mode' = "MODE_MONITOR"
    /\ forever' = 1
    /\ nopts' = nopts + 1
    /\ req' = [req EXCEPT !.sawM = TRUE]
    /\ UNCHANGED << env, dev, pc, status, region, count, width, regv, filev, monv, trace >>

\* case 'm'
OptM ==
    /\ pc = "getopt" /\ nopts < MaxOpts
    /\ mode' = "MODE_MONITOR"
    /\ nopts' = nopts + 1
    /\ req' = [req EXCEPT !.sawM = TRUE]
    /\ UNCHANGED << env, dev, pc, status, forever, region, count, width, regv, filev, monv, trace >>

\* case 'x'
OptX ==
    /\ pc = "getopt" /\ nopts < MaxOpts
    /\ mode' = "MODE_MONITOR"
    /\ forever' = 0
    /\ nopts' = nopts + 1
    /\ req' = [req EXCEPT !.sawX = TRUE]
    /\ UNCHANGED << env, dev, pc, status, region, count, width, regv, filev, monv, trace >>

\* case 'r'
OptR ==
    /\ pc = "getopt" /\ nopts < MaxOpts
    /\ \E s \in RegionArgs : \E e \in StrToULErrno(s, longBits) :
        /\ region' = StrToInt(s, longBits)
        /\ req' = [req EXCEPT !.badRegion = @ \/ NumeralIsNot(s, 0)]
        /\ IF e # "0" \/ region' # 0
           THEN pc' = "exited" /\ status' = EXIT_FAILURE
           ELSE UNCHANGED << pc, status >>
    /\ nopts' = nopts + 1
    /\ UNCHANGED << env, dev, mode, forever, count, width, regv, filev, monv, trace >>

\* case 'n'
OptN ==
    /\ pc = "getopt" /\ nopts < MaxOpts
    /\ \E s \in CountArgs : \E e \in StrToULErrno(s, longBits) :
        /\ count' = StrToInt(s, longBits)
        /\ IF e # "0"
           THEN pc' = "exited" /\ status' = EXIT_FAILURE
           ELSE UNCHANGED << pc, status >>
    /\ nopts' = nopts + 1
    /\ UNCHANGED << env, dev, mode, forever, region, width, req, regv, filev, monv, trace >>

\* the test of line 157
WidthRejected(w) == w # 4

\* case 'w'
OptW ==
    /\ pc = "getopt" /\ nopts < MaxOpts
    /\ \E s \in WidthArgs : \E e \in StrToULErrno(s, longBits) :
        /\ width' = StrToInt(s, longBits)
        /\ req' = [req EXCEPT !.badWidth = @ \/ NumeralIsNot(s, 4)]
        /\ IF e # "0" \/ WidthRejected(width')
           THEN pc' = "exited" /\ status' = EXIT_FAILURE
           ELSE UNCHANGED << pc, status >>
    /\ nopts' = nopts + 1
    /\ UNCHANGED << env, dev, mode, forever, region, count, regv, filev, monv, trace >>

\* default: an option getopt does not know, or one lacking its argument
OptBad ==
    /\ pc = "getopt" /\ nopts < MaxOpts
    /\ pc' = "exited" /\ status' = EXIT_FAILURE
    /\ nopts' = nopts + 1
    /\ UNCHANGED << env, dev, mode, forever, region, count, width, req, regv, filev, monv, trace >>

\* getopt returns -1: argc - optind operands remain
GetoptEnd ==
    /\ pc = "getopt"
    /\ pc' = "dispatch"
    /\ npos' \in PosCounts
    /\ UNCHANGED << env, dev, status, optv, addr, value, map_size, ptr, out, start, n0, vnum, filev, monv, trace >>

(* ---------------- main: dispatch on the mode ---------------- *)
\* lines 168-175
MonitorArgs ==
    /\ pc = "dispatch" /\ mode = "MODE_MONITOR"
    /\ IF npos # 1
       THEN pc' = "exited" /\ status' = EXIT_FAILURE
       ELSE pc' = "mon_open" /\ UNCHANGED status
    /\ UNCHANGED << env, dev, optv, regv, filev, monv, trace >>

\* lines 176-205; count and width are small here, count * width is exact
RegisterArgs ==
    /\ pc = "dispatch" /\ mode = "MODE_READ"
    /\ \/ /\ npos = 2
          /\ \E a \in AddrArgs : \E e \in StrToULErrno(a, longBits) :
               /\ addr' = StrToInt(a, longBits)
               /\ start' = addr'
               /\ IF e # "0"
                  THEN pc' = "exited" /\ status' = EXIT_FAILURE /\ UNCHANGED map_size
                  ELSE pc' = "open" /\ map_size' = count * width /\ UNCHANGED status
          /\ UNCHANGED << mode, value, vnum >>
       \/ /\ npos = 3
          /\ mode' = "MODE_WRITE"
          /\ \E a \in AddrArgs, v \in ValueArgs :
               \E ea \in StrToULErrno(a, longBits) : \E ev \in StrToULErrno(v, longBits) :
                 /\ addr' = StrToInt(a, longBits)
                 /\ value' = StrToInt(v, longBits)
                 /\ start' = addr'
                 /\ vnum' = v
                 /\ IF ea # "0" \/ ev # "0"
                    THEN pc' = "exited" /\ status' = EXIT_FAILURE /\ UNCHANGED map_size
                    ELSE pc' = "open" /\ map_size' = count * width /\ UNCHANGED status
       \/ /\ npos \notin {2, 3}
          /\ pc' = "exited" /\ status' = EXIT_FAILURE
          /\ UNCHANGED << mode, addr, value, map_size, start, vnum >>
    /\ n0' = count
    /\ UNCHANGED << env, dev, nopts, forever, region, count, width, req, npos, ptr, out, filev, monv, trace >>

(* ---------------- monitor() ---------------- *)
\* the test of lines 80 and 208
OpenFailed(f) == f < 1

\* a test that takes only an error return for a failure
TransferFailedMut(bytes) == bytes < 0

\* the tests of lines 87 and 95
TransferFailed(bytes) == bytes # 4

\* a loop test that ignores the flag
LoopAgainMut(f) == TRUE

\* a loop that runs once whatever the flag
LoopAgainNever(f) == FALSE

\* while (forever)
LoopAgain(f) == f # 0

\* a monitor that returns to main, which goes on to line 176
MonitorEndMut == "open"

\* exit(EXIT_SUCCESS) at the end of monitor(): control never returns to main
MonitorEnd == "exited"

\* the int printed by line 100-101
Counter(b, isSigned) ==
    AddWrap(AddWrap(AddWrap(MulWrap(CharToInt(b[3], isSigned), 16777216),
                            MulWrap(CharToInt(b[2], isSigned), 65536)),
                    MulWrap(CharToInt(b[1], isSigned), 256)),
            CharToInt(b[0], isSigned))

\* lines 79-84
MonOpen ==
    /\ pc = "mon_open"
    /\ \E r \in OpenRets :
        /\ fd' = r
        /\ fdOpen' = (r >= 0)
        /\ trace' = Append(trace, Ev("open", r, 0, r >= 0, <<>>))
        /\ IF OpenFailed(r)
           THEN pc' = "exited" /\ status' = EXIT_FAILURE
           ELSE pc' = "mon_write" /\ UNCHANGED status
    /\ UNCHANGED << env, dev, optv, regv, monv >>

\* lines 86-91
MonWrite ==
    /\ pc = "mon_write" /\ nEvents < MaxIter
    /\ \E r \in XferRets :
        /\ trace' = Append(trace, Ev("pwrite", r, 0, r = 4, startval))
        /\ IF TransferFailed(r)
           THEN pc' = "exited" /\ status' = EXIT_FAILURE
           ELSE pc' = "mon_read" /\ UNCHANGED status
    /\ UNCHANGED << env, dev, optv, regv, filev, monv >>

\* lines 93-104: the read, the report, the loop test and, out of the loop,
\* close and exit
MonRead ==
    /\ pc = "mon_read"
    /\ \E r \in XferRets :
        IF TransferFailed(r)
        THEN /\ trace' = Append(trace, Ev("pread", r, 0, FALSE, <<>>))
             /\ pc' = "exited" /\ status' = EXIT_FAILURE
             /\ UNCHANGED << filev, monv >>
        ELSE \E b \in BufSamples :
             /\ buf' = b
             /\ nEvents' = nEvents + 1
             /\ lastEvent' = Counter(b, charSigned)
             /\ IF LoopAgain(forever)
                THEN /\ trace' = Append(trace, Ev("pread", r, 0, TRUE, <<>>))
                     /\ pc' = "mon_write"
                     /\ UNCHANGED << status, filev >>
                ELSE /\ trace' = trace \o << Ev("pread", r, 0, TRUE, <<>>),
                                             Ev("close", 0, 0, TRUE, <<>>) >>
                     /\ fdOpen' = FALSE
                     /\ pc' = MonitorEnd /\ status' = EXIT_SUCCESS
                     /\ UNCHANGED fd
    /\ UNCHANGED << env, dev, optv, regv >>

(* ---------------- main: the register path ---------------- *)
\* lines 207-212
RegOpen ==
    /\ pc = "open"
    /\ \E r \in OpenRets :
        /\ fd' = r
        /\ fdOpen' = (r >= 0)
        /\ trace' = Append(trace, Ev("open", r, 0, r >= 0, <<>>))
        /\ IF OpenFailed(r)
           THEN pc' = "exited" /\ status' = EXIT_FAILURE
           ELSE pc' = "mmap" /\ UNCHANGED status
    /\ UNCHANGED << env, dev, optv, regv, monv >>

\* line 213: mmap can succeed for a positive length the device region
\* covers, and can fail for any length; the result is not tested
Mmap ==
    /\ pc = "mmap"
    /\ \/ /\ map_size > 0 /\ map_size <= 4 * Cardinality(RegOffsets)
          /\ ptr' = "mapped"
       \/ ptr' = "MAP_FAILED"
    /\ trace' = Append(trace, Ev("mmap", map_size, 0, ptr' = "mapped", <<>>))
    /\ pc' = "access"
    /\ UNCHANGED << env, dev, status, optv, npos, addr, value, map_size, out, start, n0, vnum, filev, monv >>

\* ptr + a designates a whole word of the live mapping
InMapping(a) == ptr = "mapped" /\ a >= 0 /\ a % 4 = 0 /\ a + 4 <= map_size /\ a \in RegOffsets

\* an address that advances by one byte
NextAddrMut(a, w) == a + 1

\* addr += width
NextAddr(a, w) == a + w

\* a 16-bit load
LoadWordMut(w) == w[2]

\* value = *((unsigned *) (ptr + addr)), the word being w
LoadWord(w) == U32ToInt(w)

\* a 16-bit store
StoreWordMut(v) == << 0, v % 65536 >>

\* *((unsigned *)(ptr + addr)) = value: the word the register receives
StoreWord(v) == IntToU32(v)

\* one line of output: printf("0x%08x\t%08x\n", addr, value)
Line(a, v) == [addr |-> IntToU32(a), value |-> IntToU32(v)]

\* lines 218-222, one iteration.  A load outside the live mapping is
\* undefined: the process is killed by a signal, or the load yields some word
Load ==
    /\ pc = "access" /\ mode = "MODE_READ" /\ count > 0
    /\ \/ \E w \in (IF InMapping(addr) THEN {mem[addr]} ELSE MemVals) :
            /\ value' = LoadWord(w)
            /\ out' = Append(out, Line(addr, value'))
            /\ addr' = NextAddr(addr, width)
            /\ count' = count - 1
            /\ trace' = Append(trace,
                   [Ev("load", 0, addr, InMapping(addr), w) EXCEPT
                      !.wr = IF InMapping(addr) /\ lastWrite.valid /\ lastWrite.off = addr
                             THEN lastWrite ELSE NoWrite])
            /\ UNCHANGED << pc, status >>
       \/ /\ ~InMapping(addr)
          /\ pc' = "crashed" /\ status' = -1
          /\ trace' = Append(trace, Ev("load", -1, addr, FALSE, <<>>))
          /\ UNCHANGED << value, out, addr, count >>
    /\ UNCHANGED << env, dev, nopts, mode, forever, region, width, req, npos, map_size, ptr, start, n0, vnum, filev, monv >>

\* line 224.  A store outside the live mapping is undefined: the process is
\* killed by a signal, or the store lands somewhere, possibly on a register
Store ==
    /\ pc = "access" /\ mode = "MODE_WRITE"
    /\ \/ /\ InMapping(addr)
          /\ mem' = [mem EXCEPT ![addr] = StoreWord(value)]
          /\ lastWrite' = [valid |-> TRUE, off |-> addr, v |-> vnum]
          /\ pc' = "cleanup" /\ UNCHANGED status
       \/ /\ ~InMapping(addr)
          /\ \E i \in DOMAIN mem : \E w \in {mem[i], StoreWord(value)} :
               mem' = [mem EXCEPT ![i] = w]
          /\ lastWrite' = NoWrite
          /\ pc' = "cleanup" /\ UNCHANGED status
       \/ /\ ~InMapping(addr)
          /\ pc' = "crashed" /\ status' = -1
          /\ UNCHANGED dev
    /\ trace' = Append(trace, Ev("store", 0, addr, InMapping(addr), StoreWord(value)))
    /\ UNCHANGED << env, optv, regv, filev, monv >>

\* lines 227-231: munmap(ptr, map_size); close(fd); return EXIT_SUCCESS
Cleanup ==
    /\ \/ pc = "cleanup"
       \/ pc = "access" /\ mode = "MODE_READ" /\ count <= 0
    /\ trace' = trace \o << Ev("munmap", map_size, 0, ptr = "mapped", <<>>),
                            Ev("close", 0, 0, TRUE, <<>>) >>
    /\ ptr' = IF ptr = "mapped" THEN "unmapped" ELSE ptr
    /\ fdOpen' = FALSE
    /\ pc' = "exited" /\ status' = EXIT_SUCCESS
    /\ UNCHANGED << env, dev, optv, npos, addr, value, map_size, out, start, n0, vnum, fd, monv >>

(* ---------------- the environment ---------------- *)
\* the hardware changes a register; the program can see it only through
\* the mapping
DeviceUpdate ==
    /\ ptr = "mapped"
    /\ \E i \in DOMAIN mem : \E w \in MemVals \ {mem[i]} :
        /\ mem' = [mem EXCEPT ![i] = w]
        /\ lastWrite' = IF lastWrite.valid /\ lastWrite.off = i THEN NoWrite ELSE lastWrite
    /\ UNCHANGED << env, pc, status, optv, regv, filev, monv, trace >>

\* the program has ended and is started again on the same device
Reexec ==
    /\ pc \in {"exited", "crashed"}
    /\ pc' = "getopt"
    /\ status' = -1
    /\ nopts' = 0
    /\ mode' = "MODE_READ"
    /\ forever' = 1
    /\ region' = 0
    /\ count' = 1
    /\ width' = DEFAULT_WIDTH
    /\ req' = NoReq
    /\ npos' = 0
    /\ addr' = 0
    /\ value' = 0
    /\ map_size' = 0
    /\ ptr' = "none"
    /\ out' = <<>>
    /\ start' = 0
    /\ n0' = 0
    /\ vnum' = Num(<<0>>)
    /\ fd' = -1
    /\ fdOpen' = FALSE
    /\ buf' = [i \in 0 .. 3 |-> 0]
    /\ nEvents' = 0
    /\ lastEvent' = 0
    /\ trace' = <<>>
    /\ UNCHANGED << charSigned, longBits, dev >>

Next ==
    \/ OptH \/ OptL \/ OptM \/ OptX \/ OptR \/ OptN \/ OptW \/ OptBad
    \/ GetoptEnd
    \/ MonitorArgs \/ RegisterArgs
    \/ MonOpen \/ MonWrite \/ MonRead
    \/ RegOpen \/ Mmap \/ Load \/ Store \/ Cleanup
    \/ DeviceUpdate \/ Reexec

Spec == Init /\ [][Next]_vars

(* ---------------- one invocation, the monitor loop unbounded ---------------- *)
\* The loop of monitor() with no limit on its iterations; the history
\* (trace, nEvents) records the first MaxIter rounds only, the program state
\* is as in MonWrite and MonRead.
Record(tr, es) == IF nEvents < MaxIter THEN tr \o es ELSE tr

\* lines 86-91
MonWriteLive ==
    /\ pc = "mon_write"
    /\ \E r \in XferRets :
        /\ trace' = Record(trace, << Ev("pwrite", r, 0, r = 4, startval) >>)
        /\ IF TransferFailed(r)
           THEN pc' = "exited" /\ status' = EXIT_FAILURE
           ELSE pc' = "mon_read" /\ UNCHANGED status
    /\ UNCHANGED << env, dev, optv, regv, filev, monv >>

\* lines 93-104
MonReadLive ==
    /\ pc = "mon_read"
    /\ \E r \in XferRets :
        IF TransferFailed(r)
        THEN /\ trace' = Record(trace, << Ev("pread", r, 0, FALSE, <<>>) >>)
             /\ pc' = "exited" /\ status' = EXIT_FAILURE
             /\ UNCHANGED << filev, monv >>
        ELSE \E b \in BufSamples :
             /\ buf' = b
             /\ nEvents' = IF nEvents < MaxIter THEN nEvents + 1 ELSE nEvents
             /\ lastEvent' = Counter(b, charSigned)
             /\ IF LoopAgain(forever)
                THEN /\ trace' = Record(trace, << Ev("pread", r, 0, TRUE, <<>>) >>)
                     /\ pc' = "mon_write"
                     /\ UNCHANGED << status, filev >>
                ELSE /\ trace' = Record(trace, << Ev("pread", r, 0, TRUE, <<>>),
                                                  Ev("close", 0, 0, TRUE, <<>>) >>)
                     /\ fdOpen' = FALSE
                     /\ pc' = MonitorEnd /\ status' = EXIT_SUCCESS
                     /\ UNCHANGED fd
    /\ UNCHANGED << env, dev, optv, regv >>

NextLive ==
    \/ OptH \/ OptL \/ OptM \/ OptX \/ OptR \/ OptN \/ OptW \/ OptBad
    \/ GetoptEnd
    \/ MonitorArgs \/ RegisterArgs
    \/ MonOpen \/ MonWriteLive \/ MonReadLive
    \/ RegOpen \/ Mmap \/ Load \/ Store \/ Cleanup
    \/ DeviceUpdate

\* the process runs its next statement, and the device ends every transfer
\* it was asked for (with whatever result)
SpecLive ==
    Init /\ [][NextLive]_vars /\ WF_vars(MonWriteLive) /\ WF_vars(MonReadLive)

(* ---------------- properties ---------------- *)
Idx(o) == { i \in DOMAIN trace : trace[i].op = o }
FullTransfers == \A i \in DOMAIN trace : trace[i].op \in {"pwrite", "pread"} => trace[i].ret = 4

\* C1: in monitor mode the operations on the device file alternate, a write
\* first: every read at offset 0 directly follows a successful 4-byte write of
\* the token {0,0,0,1} at offset 0, and every write directly follows the open
\* or a read, so no two writes and no two reads are back to back.
C1_Alternation ==
    \A i \in DOMAIN trace :
        /\ trace[i].op = "pread" =>
              /\ i > 1
              /\ trace[i].off = 0
              /\ trace[i - 1].op = "pwrite"
              /\ trace[i - 1].ret = 4
              /\ trace[i - 1].off = 0
              /\ trace[i - 1].data = << 0, 0, 0, 1 >>
        /\ trace[i].op = "pwrite" =>
              /\ i > 1
              /\ trace[i - 1].op \in {"open", "pread"}

\* two complete write/read rounds have been made
C1_Witness == Cardinality(Idx("pread")) >= 2 /\ Cardinality(Idx("pwrite")) >= 2

\* C2: with forever = 0 the monitor never issues more than one write, one read
\* and one report, and when its transfers were complete it ends having done
\* exactly open, one write, one read, one report, close, with status 0.
C2_RunOnce ==
    forever = 0 =>
        /\ Cardinality(Idx("pwrite")) <= 1
        /\ Cardinality(Idx("pread")) <= 1
        /\ nEvents <= 1
        /\ (pc = "exited" /\ Idx("pwrite") # {} /\ FullTransfers) =>
              /\ [i \in DOMAIN trace |-> trace[i].op] = << "open", "pwrite", "pread", "close" >>
              /\ nEvents = 1
              /\ status = EXIT_SUCCESS

C2_Witness == forever = 0 /\ pc = "exited" /\ nEvents = 1 /\ status = EXIT_SUCCESS

\* C3: a write or a read on the device file that does not transfer 4 bytes is
\* the last thing the invocation does: the program has ended with a non-zero
\* status, nothing follows it in the trace (no read after a failed write, no
\* retry), and events were reported for the complete reads only.
C3_NoRetry ==
    /\ \A i \in DOMAIN trace :
          (trace[i].op \in {"pwrite", "pread"} /\ trace[i].ret # 4) =>
              /\ i = Len(trace)
              /\ pc = "exited"
              /\ status # EXIT_SUCCESS
    /\ nEvents = Cardinality({ i \in Idx("pread") : trace[i].ret = 4 })

\* a read fell short after one event had been reported
C3_Witness ==
    /\ Len(trace) > 0
    /\ trace[Len(trace)].op = "pread"
    /\ trace[Len(trace)].ret # 4
    /\ nEvents = 1

\* the unsigned value b[3]*16777216 + b[2]*65536 + b[1]*256 + b[0]
CounterU32(b) == << b[3] * 256 + b[2], b[1] * 256 + b[0] >>

\* the int r is the number the 32-bit quantity u stands for
IntIsU32(r, u) == r >= 0 /\ u[1] < 32768 /\ r = u[1] * 65536 + u[2]

\* C4: the counter reported for the bytes read is their unsigned 32-bit
\* little-endian value, also when a byte is 0x80 or more.
C4_CounterUnsigned ==
    nEvents > 0 => IntIsU32(lastEvent, CounterU32(buf))

\* C5: every load and store through the mapping is at an offset inside
\* [0, mapped_length), the mapped length being count * 4.
C5_BoundsEnforced ==
    \A i \in DOMAIN trace :
        trace[i].op \in {"load", "store"} =>
            trace[i].off >= 0 /\ trace[i].off + 4 <= map_size

\* C6: when the mapping could not be established after a successful open, the
\* invocation ends in failure with the descriptor closed.
C6_MapFailureFails ==
    (pc = "exited" /\ ptr = "MAP_FAILED") => (status # EXIT_SUCCESS /\ ~fdOpen)

\* C7: when the program ends by itself holding a descriptor it opened, the
\* mapping is gone and the descriptor closed, the munmap before the close.
C7_ReleasedOnExit ==
    (pc = "exited" /\ fd >= 1) =>
        /\ ~fdOpen
        /\ ptr # "mapped"
        /\ \A i \in Idx("munmap"), j \in Idx("close") : i < j

\* C8: once a width other than 4 or a region other than 0 has been asked
\* for, the invocation opens no device file and does not end in success.
C8_RejectedBeforeOpen ==
    (req.badWidth \/ req.badRegion) =>
        /\ Idx("open") = {}
        /\ pc = "exited" => status # EXIT_SUCCESS

\* the loads of the trace that returned, in order
Loads == SelectSeq(trace, LAMBDA e : e.op = "load" /\ e.ret = 0)

\* C9: a read of n0 words from start emits one entry per load, the k-th with
\* address start + 4*(k-1) and, for a load inside the mapping, the word the
\* register held at that load; it stores nothing, never emits more than n0
\* entries, and has emitted exactly n0 when it completes with n0 >= 1.
C9_AddressProgression ==
    (mode = "MODE_READ" /\ Idx("mmap") # {}) =>
        /\ Len(out) = Len(Loads)
        /\ Idx("store") = {}
        /\ Len(out) <= (IF n0 > 0 THEN n0 ELSE 0)
        /\ \A k \in 1 .. Len(out) :
              /\ out[k].addr = << 0, start + 4 * (k - 1) >>
              /\ Loads[k].off = start + 4 * (k - 1)
              /\ Loads[k].ok => out[k].value = Loads[k].data
        /\ (pc = "exited" /\ n0 >= 1) => Len(out) = n0

\* a two-word read inside the mapping has completed and shown a changed register
C9_Witness ==
    /\ mode = "MODE_READ" /\ pc = "exited" /\ n0 = 2
    /\ Len(out) = 2
    /\ Loads[1].ok /\ Loads[2].ok
    /\ out[2].value = << 32768, 1 >>

\* the 32-bit quantity a numeral below 2^32 stands for
NumeralU32(s) == << Limb(s.limbs, 2), Limb(s.limbs, 1) >>

\* C10: a load inside the mapping of a register whose last writer was a store
\* of v by this program reports exactly v, as an unsigned 32-bit quantity.
C10_RoundTrip ==
    \A k \in 1 .. Len(out) :
        (k <= Len(Loads) /\ Loads[k].ok /\ Loads[k].wr.valid) =>
            /\ out[k].value = NumeralU32(Loads[k].wr.v)
            /\ out[k].addr = << 0, Loads[k].wr.off >>

\* 0x80001234 was written at offset 4 and read back by a later invocation
C10_Witness ==
    \E k \in 1 .. Len(out) :
        /\ k <= Len(Loads)
        /\ Loads[k].ok /\ Loads[k].wr.valid
        /\ Loads[k].wr.v = Num(<< 4660, 32768 >>)
        /\ Loads[k].off = 4

RegisterOps == {"mmap", "load", "store", "munmap"}
MonitorOps == {"pwrite", "pread"}
Used(ops) == \E i \in DOMAIN trace : trace[i].op \in ops

\* C11: the modes exclude each other within an invocation: in monitor mode
\* there is never a mapping nor an mmap, load, store or munmap, and nothing
\* follows the end of the monitor; in a register mode there is never a write
\* or read on the device file; the device is opened at most once.
C11_ModesExclusive ==
    /\ mode = "MODE_MONITOR" => (~Used(RegisterOps) /\ ptr = "none")
    /\ mode # "MODE_MONITOR" => ~Used(MonitorOps)
    /\ ~(Used(RegisterOps) /\ Used(MonitorOps))
    /\ ptr # "none" => mode \in {"MODE_READ", "MODE_WRITE"}
    /\ Cardinality(Idx("open")) <= 1
    /\ \A i \in Idx("close") : i = Len(trace)

\* a run-once monitor has ended after its event
C11_Witness ==
    /\ mode = "MODE_MONITOR" /\ pc = "exited" /\ status = EXIT_SUCCESS
    /\ Used(MonitorOps) /\ nEvents = 1

InForeverLoop == mode = "MODE_MONITOR" /\ forever = 1 /\ Idx("open") # {}
FailedExit == pc = "exited" /\ status = EXIT_FAILURE

\* C12: in run-forever mode the monitor never ends in success; it leaves the
\* waiting step only to arm again after a complete read or to exit in failure,
\* an arming always leads to waiting or to a failure exit, and a wait always
\* leads to a reported event and a new arming or to a failure exit: as long as
\* the device completes the transfers, events are reported again and again.
C12_RunsForever ==
    /\ []((InForeverLoop /\ pc = "exited") => status = EXIT_FAILURE)
    /\ [][(InForeverLoop /\ pc = "mon_read" /\ pc' # "mon_read") =>
             \/ pc' = "mon_write" /\ lastEvent' = Counter(buf', charSigned)
             \/ pc' = "exited" /\ status' = EXIT_FAILURE]_vars
    /\ (InForeverLoop /\ pc = "mon_write") ~> (pc = "mon_read" \/ FailedExit)
    /\ (InForeverLoop /\ pc = "mon_read") ~> ((pc = "mon_write" /\ nEvents >= 1) \/ FailedExit)

\* the monitor waits again after more rounds than the history records
C12_Witness ==
    InForeverLoop /\ pc = "mon_read" /\ nEvents = MaxIter

AnyFailure ==
    \/ req.badWidth \/ req.badRegion
    \/ \E i \in Idx("open") : trace[i].ret < 0
    \/ ptr = "MAP_FAILED"
    \/ ~FullTransfers

ModeCompleted ==
    \/ mode = "MODE_READ" /\ n0 >= 1 /\ Len(out) = n0
    \/ mode = "MODE_WRITE" /\ Idx("store") # {}
    \/ mode = "MODE_MONITOR" /\ forever = 0 /\ nEvents = 1

\* C13: an invocation that got as far as opening the device ends with status
\* 0 only if no validation, open, mapping or transfer failed, and any
\* invocation ends with 0 when none failed and the mode ran to its end.
C13_StatusIffNormal ==
    pc = "exited" =>
        /\ (status = EXIT_SUCCESS /\ Idx("open") # {}) => ~AnyFailure
        /\ (~AnyFailure /\ ModeCompleted) => status = EXIT_SUCCESS

MonitorPcs == {"getopt", "dispatch", "mon_open", "mon_write", "mon_read", "exited"}

\* C14: once -x has been seen the invocation is a run-once monitor, whatever
\* -m did before or after: mode is monitor, forever is 0, and the loop is never
\* armed a second time; with -m and no -x it is a run-forever monitor, which
\* after an event arms again or has failed; neither touches the register path.
C14_XImpliesOnce ==
    /\ req.sawX => (mode = "MODE_MONITOR" /\ forever = 0)
    /\ (req.sawM /\ ~req.sawX) => (mode = "MODE_MONITOR" /\ forever = 1)
    /\ (req.sawX \/ req.sawM) => (pc \in MonitorPcs /\ ~Used(RegisterOps))
    /\ (req.sawX /\ pc = "mon_write") => nEvents = 0
    /\ (req.sawX /\ nEvents >= 1) => (pc = "exited" /\ status = EXIT_SUCCESS /\ nEvents = 1)
    /\ (req.sawM /\ ~req.sawX /\ nEvents >= 1) => (pc \in {"mon_write", "mon_read"} \/ FailedExit)

\* -x and -m were both given and the monitor ended after one event
C14_Witness ==
    /\ req.sawX /\ req.sawM /\ nopts = 2
    /\ pc = "exited" /\ status = EXIT_SUCCESS /\ nEvents = 1

\* C15: every load and store through the mapping pointer comes after an open
\* that succeeded and an mmap that succeeded, and before the munmap.
C15_AccessWhileMapped ==
    \A i \in Idx("load") \cup Idx("store") :
        /\ \E j \in Idx("mmap") : j < i /\ trace[j].ok
        /\ \E o \in Idx("open") : o < i /\ trace[o].ret >= 0
        /\ \A k \in Idx("munmap") : k > i

\* C16: a write-mode invocation that ended in success did open, mmap, one
\* store at the given address of the given value, munmap, close, with no load
\* and no output, whatever the count; and the step of a store inside the
\* mapping changes that register to the value and no other register.
C16_OneStore ==
    /\ []((mode = "MODE_WRITE" /\ pc = "exited" /\ status = EXIT_SUCCESS) =>
            /\ [i \in DOMAIN trace |-> trace[i].op] = << "open", "mmap", "store", "munmap", "close" >>
            /\ out = <<>>
            /\ trace[3].off = start
            /\ trace[3].data = NumeralU32(vnum))
    /\ [][(mode = "MODE_WRITE" /\ pc = "access" /\ pc' = "cleanup" /\ InMapping(addr)) =>
             mem' = [mem EXCEPT ![start] = NumeralU32(vnum)]]_vars

\* 0x80001234 was stored at offset 4 by an invocation given -n 2
C16_Witness ==
    /\ mode = "MODE_WRITE" /\ pc = "exited" /\ status = EXIT_SUCCESS
    /\ n0 = 2 /\ start = 4
    /\ trace[3].ok
    /\ mem[4] = << 32768, 4660 >>

\* C17: an open that returned a descriptor, 0 included, is never taken for
\* a failure (the program goes on with it), and an open that failed ends the
\* invocation at once with a non-zero status.
C17_OpenAccepted ==
    \A i \in Idx("open") :
        /\ trace[i].ret >= 0 => ~(i = Len(trace) /\ pc = "exited")
        /\ trace[i].ret < 0 => (i = Len(trace) /\ pc = "exited" /\ status # EXIT_SUCCESS)
====
